---- MODULE Spec2Model ----
(***************************************************************************)
(* Model of the wgpu overlay of wgpu-tauri-experiment.                     *)
(*                                                                         *)
(*   main thread    add_wgpu_overlay: State::new behind block_on, then the *)
(*                  window-event handler is registered and the render      *)
(*                  thread is spawned (main.rs 371-434).                   *)
(*   event thread   the closure given to on_window_event (main.rs 393-423), *)
(*                  one step per statement that takes a lock, calls the    *)
(*                  overlay or writes a field of State.                    *)
(*   render thread  the loop of main.rs 426-433, one step per stage of     *)
(*                  State::render.                                         *)
(*                                                                         *)
(* The overlay handle exists in two builds (overlay/macos.rs,              *)
(* overlay/windows.rs).  The state carries both handles, mac and win, and  *)
(* the handler drives both with the same calls, so that the two builds can *)
(* be compared on one and the same sequence of host events.                *)
(***************************************************************************)
EXTENDS Integers, FiniteSets, Sequences, TLC

VARIABLES
    main_pc,        \* position of add_wgpu_overlay on the main thread
    ev_pc,          \* position of the window-event closure
    rt_pc,          \* position of the render thread
    host_pos,       \* the host window's real screen position (toolkit-owned)
    event,          \* the WindowEvent being handled (or handled last)
    locals,         \* overlay_size, x, y of the Resized arm
    mutex,          \* the two Mutexes: video_view and wgpu_state
    mac,            \* MacosOverlayView: the frame of ns_view
    win,            \* WindowsOverlayView and its tao window
    wgpu_state,     \* State: size and config
    surface,        \* the wgpu surface: what was last configured, and its health
    render_result,  \* result of the last State::render call
    history         \* of the Resized events: what the properties refer back to

vars == <<main_pc, ev_pc, rt_pc, host_pos, event, locals, mutex, mac, win,
          wgpu_state, surface, render_result, history>>

----------------------------------------------------------------------------
(* Bounds and inputs *)

\* host sizes delivered by Resized events (physical pixels, u32)
HostWidths == {3, 1000}
HostHeights == {9, 800, 6000}

\* host positions delivered by Moved events (physical pixels, i32)
HostPositions == {<<100, 100>>, <<150, 120>>}

\* scale factors of the monitor the overlay window is created on
ScaleFactors == {1, 2}

Threads == {"event", "render"}
Mutexes == {"video_view", "wgpu_state"}

----------------------------------------------------------------------------
(* tauri / tao value types *)

PhysicalPosition(px, py) == [x |-> px, y |-> py]
PhysicalSize(w, h) == [width |-> w, height |-> h]
\* Position::Physical / Size::Physical: the enum tag travels with the value
PositionPhysical(p) == [kind |-> "Physical", x |-> p.x, y |-> p.y]
SizePhysical(s) == [kind |-> "Physical", width |-> s.width, height |-> s.height]

----------------------------------------------------------------------------
(* f64 arithmetic of the Resized arm.                                      *)
(* A value is kept as an exact fraction num/den.  The f64 results differ   *)
(* from the exact ones by less than 2^-20 for u32 inputs, and they are     *)
(* exact whenever the exact result is a whole number (w * 0.3 for w a      *)
(* multiple of 10 rounds to 3w/10, h * 0.1 for h a multiple of 10 rounds   *)
(* to h/10); every other exact result is at least 1/20 away from a whole   *)
(* number.  So the casts below see the same whole part as the code does.   *)

F64(n) == [num |-> n, den |-> 1]
F64Mul(a, b) == [num |-> a.num * b.num, den |-> a.den * b.den]
F64Sub(a, b) == [num |-> a.num * b.den - b.num * a.den, den |-> a.den * b.den]
F64Div(a, b) == [num |-> a.num * b.den, den |-> a.den * b.num]

\* the literals 0.3, 0.1 and 2.0
WidthFactor == [num |-> 3, den |-> 10]
HeightFactor == [num |-> 1, den |-> 10]
Two == [num |-> 2, den |-> 1]

\* `as u32` / `as i32` of a non-negative f64: the fraction is dropped
AsRounded(a) == (2 * a.num + a.den) \div (2 * a.den)
AsInt(a) == a.num \div a.den

overlay_y == 100

\* main.rs 405-413
overlay_width(size) == F64Mul(F64(size.width), WidthFactor)
overlay_height(size) == F64Mul(F64(size.height), HeightFactor)
origin_x(size) == F64Div(F64Sub(F64(size.width), overlay_width(size)), Two)
origin_y(size) == F64(overlay_y)
overlay_size(size) ==
    PhysicalSize(AsInt(overlay_width(size)), AsInt(overlay_height(size)))

----------------------------------------------------------------------------
(* MacosOverlayView (overlay/macos.rs) *)

\* add_overlay: initWithFrame (100, 0) 200 x 200
MacosNew == [origin |-> PhysicalPosition(100, 0), size |-> PhysicalSize(200, 200)]

\* raw_window_handle: always returns the AppKit handle
mac_raw_window_handle(view) == TRUE

mac_set_parent_position_moves(view, pos) ==
    [view EXCEPT !.origin = PhysicalPosition(pos.x, pos.y)]
mac_set_parent_position(view, pos) == view

\* both arms of the match give (pos.x, pos.y)
mac_set_origin(view, pos) ==
    [view EXCEPT !.origin = PhysicalPosition(pos.x, pos.y)]

\* both arms of the match give (size.width, size.width)
mac_set_size(view, size) ==
    [view EXCEPT !.size = PhysicalSize(size.width, size.width)]

----------------------------------------------------------------------------
(* WindowsOverlayView (overlay/windows.rs) *)

\* add_overlay + WindowsOverlayView::new: the tao window is built at
\* LogicalPosition (30, 30) with LogicalSize (200, 200)
WindowsNew(scale) ==
    [alive |-> TRUE,
     unimplemented |-> FALSE,
     parent_pos |-> PositionPhysical(PhysicalPosition(0, 0)),
     last_origin |-> PositionPhysical(PhysicalPosition(0, 0)),
     scale_factor |-> scale,
     outer_position |-> PhysicalPosition(30 * scale, 30 * scale),
     inner_size |-> PhysicalSize(200 * scale, 200 * scale)]

win_set_origin_accumulate(view, pos) ==
    IF view.alive
    THEN [view EXCEPT !.last_origin = pos,
                      !.outer_position =
                          PhysicalPosition(view.outer_position.x + pos.x,
                                           view.outer_position.y + pos.y)]
    ELSE view
win_set_origin(view, pos) ==
    IF view.alive
    THEN LET v == [view EXCEPT !.last_origin = pos]
         IN  IF v.last_origin.kind = "Physical" /\ v.parent_pos.kind = "Physical"
             THEN [v EXCEPT !.outer_position =
                       PhysicalPosition(v.last_origin.x + v.parent_pos.x,
                                        v.last_origin.y + v.parent_pos.y)]
             ELSE [v EXCEPT !.unimplemented = TRUE]
    ELSE view

win_set_parent_position_stale(view, pos) == [view EXCEPT !.parent_pos = pos]
win_set_parent_position(view, pos) ==
    win_set_origin([view EXCEPT !.parent_pos = pos], view.last_origin)

\* raw_window_handle: TRUE when a handle is returned; on a dropped window
\* upgrade().expect("window was deallocated?") panics
win_raw_window_handle(view) == view.alive

\* Size::Physical sets the inner size in pixels; Size::Logical hands tao a
\* LogicalSize, which the window turns into pixels by its scale factor
win_set_size(view, size) ==
    IF view.alive
    THEN IF size.kind = "Physical"
         THEN [view EXCEPT !.inner_size =
                   PhysicalSize(size.width, size.height)]
         ELSE [view EXCEPT !.inner_size =
                   PhysicalSize(size.width * view.scale_factor,
                                size.height * view.scale_factor)]
    ELSE view

----------------------------------------------------------------------------
(* State (main.rs 246-355) *)

NoState == [created |-> FALSE, size |-> PhysicalSize(0, 0),
            config |-> PhysicalSize(0, 0)]
NoSurface == [width |-> 0, height |-> 0, status |-> "none"]

\* add_wgpu_overlay: State::new(&overlay_view, PhysicalSize { 200, 200 })
InitialSize == PhysicalSize(200, 200)

\* surface.configure(&device, &config)
configure(s, config) ==
    [s EXCEPT !.width = config.width, !.height = config.height,
              !.status = "ok"]

StateNewValue(size) == [created |-> TRUE, size |-> size, config |-> size]

\* the guard of State::resize
resize_guard_or(new_size) == new_size.width > 0 \/ new_size.height > 0
resize_guard_none(new_size) == TRUE
resize_guard(new_size) == new_size.width > 0 /\ new_size.height > 0

----------------------------------------------------------------------------
(* std::sync::Mutex *)

Unlocked == [holder |-> "none", poisoned |-> FALSE]

\* which Mutex each lock() statement names
LockAt_swapped(pc) ==
    CASE pc = "moved_lock" -> "video_view"
      [] pc = "resized_lock_overlay" -> "wgpu_state"
      [] pc = "resized_lock_state" -> "video_view"
      [] pc = "render_lock" -> "wgpu_state"
LockAt(pc) ==
    CASE pc = "moved_lock" -> "video_view"              \* main.rs 395
      [] pc = "resized_lock_overlay" -> "video_view"    \* main.rs 414
      [] pc = "resized_lock_state" -> "wgpu_state"      \* main.rs 420
      [] pc = "render_lock" -> "wgpu_state"             \* main.rs 431

\* lock() returns once the Mutex is free
Free(m) == mutex[m].holder = "none"
Acquire(m, t) == [mutex EXCEPT ![m].holder = t]

\* the guard of Mutex m dropped at the end of the statement that took it
DropGuard(t, m) ==
    IF mutex[m].holder = t THEN [mutex EXCEPT ![m].holder = "none"]
    ELSE mutex

\* guards dropped at the end of a statement or match arm
Drop(t) ==
    [m \in Mutexes |->
        IF mutex[m].holder = t THEN [mutex[m] EXCEPT !.holder = "none"]
        ELSE mutex[m]]

\* guards dropped while the thread unwinds from a panic: the Mutex is poisoned
PanicDrop_leak(t) == mutex
PanicDrop(t) ==
    [m \in Mutexes |->
        IF mutex[m].holder = t THEN [holder |-> "none", poisoned |-> TRUE]
        ELSE mutex[m]]

----------------------------------------------------------------------------
(* Initial state: add_overlay has returned (main.rs 372), State::new has   *)
(* not run yet.                                                            *)

NoEvent == [kind |-> "None", pos |-> PhysicalPosition(0, 0),
            size |-> PhysicalSize(0, 0)]
NoLocals == [overlay_size |-> PhysicalSize(0, 0), x |-> F64(0), y |-> F64(0)]

\* history.resized_again: the Resized event being handled repeats the event
\* handled just before it; history.last_valid: the overlay size of the latest
\* Resized event that had both dimensions positive, the initial size before
NoHistory == [resized_again |-> FALSE, last_valid |-> InitialSize]

Init ==
    /\ main_pc = "state_new"
    /\ ev_pc = "unregistered"
    /\ rt_pc = "unspawned"
    /\ host_pos \in {PhysicalPosition(p[1], p[2]) : p \in HostPositions}
    /\ event = NoEvent
    /\ locals = NoLocals
    /\ mutex = [m \in Mutexes |-> Unlocked]
    /\ mac = MacosNew
    /\ win \in {WindowsNew(s) : s \in ScaleFactors}
    /\ wgpu_state = NoState
    /\ surface = NoSurface
    /\ render_result = "none"
    /\ history = NoHistory

----------------------------------------------------------------------------
(* Main thread: add_wgpu_overlay (main.rs 371-434) *)

\* block_on(State::new(..)): create_surface asks the overlay for its raw
\* window handle, request_adapter / request_device unwrap, then the surface
\* is configured with the initial size
StateNew_nowait ==
    /\ main_pc = "state_new"
    /\ main_pc' = "on_window_event"
    /\ UNCHANGED <<ev_pc, rt_pc, host_pos, event, locals, mutex, mac, win,
                   wgpu_state, surface, render_result, history>>
StateNew_degraded ==
    /\ main_pc = "state_new"
    /\ \E adapter_ok \in BOOLEAN :
          \/ /\ adapter_ok
             /\ wgpu_state' = StateNewValue(InitialSize)
             /\ surface' = configure(surface, InitialSize)
          \/ /\ ~adapter_ok
             /\ UNCHANGED <<wgpu_state, surface>>
    /\ main_pc' = "on_window_event"
    /\ UNCHANGED <<ev_pc, rt_pc, host_pos, event, locals, mutex, mac, win,
                   render_result, history>>
StateNew ==
    /\ main_pc = "state_new"
    /\ \E adapter_ok \in BOOLEAN :
          \/ /\ win_raw_window_handle(win) /\ mac_raw_window_handle(mac)
             /\ adapter_ok
             /\ wgpu_state' = StateNewValue(InitialSize)
             /\ surface' = configure(surface, InitialSize)
             /\ main_pc' = "on_window_event"
          \/ /\ win_raw_window_handle(win) /\ mac_raw_window_handle(mac)
             /\ ~adapter_ok
             /\ main_pc' = "aborted"
             /\ UNCHANGED <<wgpu_state, surface>>
          \/ /\ ~win_raw_window_handle(win)
             /\ adapter_ok
             /\ main_pc' = "window_deallocated"
             /\ UNCHANGED <<wgpu_state, surface>>
    /\ UNCHANGED <<ev_pc, rt_pc, host_pos, event, locals, mutex, mac, win,
                   render_result>>
    /\ UNCHANGED history

\* window.on_window_event(move |event| ...)
RegisterHandler ==
    /\ main_pc = "on_window_event"
    /\ main_pc' = "spawn"
    /\ ev_pc' = "registered"
    /\ UNCHANGED <<rt_pc, host_pos, event, locals, mutex, mac, win, wgpu_state,
                   surface, render_result>>
    /\ UNCHANGED history

\* std::thread::spawn(move || loop { ... }); add_wgpu_overlay returns and the
\* event loop starts delivering window events
SpawnRenderThread ==
    /\ main_pc = "spawn"
    /\ main_pc' = "running"
    /\ ev_pc' = "idle"
    /\ rt_pc' = "render_lock"
    /\ UNCHANGED <<host_pos, event, locals, mutex, mac, win, wgpu_state,
                   surface, render_result>>
    /\ UNCHANGED history

----------------------------------------------------------------------------
(* Event thread: WindowEvent::Moved (main.rs 394-398) *)

Moved ==
    /\ ev_pc = "idle"
    /\ \E p \in HostPositions :
          /\ host_pos' = PhysicalPosition(p[1], p[2])
          /\ event' = [kind |-> "Moved", pos |-> PhysicalPosition(p[1], p[2]),
                       size |-> PhysicalSize(0, 0)]
    /\ ev_pc' = "moved_lock"
    /\ history' = [history EXCEPT !.resized_again = FALSE]
    /\ UNCHANGED <<main_pc, rt_pc, locals, mutex, mac, win, wgpu_state,
                   surface, render_result>>

\* lock().unwrap() at the statement the thread t is at: the lock is taken
\* when the Mutex is free; unwrap panics on a poisoned Mutex and the guard
\* inside the error is dropped by the unwinding
LockUnwrap(t, pc) ==
    IF mutex[LockAt(pc)].poisoned
    THEN [PanicDrop(t) EXCEPT ![LockAt(pc)].poisoned = TRUE]
    ELSE Acquire(LockAt(pc), t)

\* video_view.lock().unwrap()
MovedLock ==
    /\ ev_pc = "moved_lock"
    /\ Free(LockAt(ev_pc))
    /\ mutex' = LockUnwrap("event", ev_pc)
    /\ ev_pc' = IF mutex[LockAt(ev_pc)].poisoned THEN "panicked"
                ELSE "moved_set_parent_position"
    /\ UNCHANGED <<main_pc, rt_pc, host_pos, event, locals, mac, win,
                   wgpu_state, surface, render_result>>
    /\ UNCHANGED history

\* overlay.set_parent_position(Position::Physical(pos)); the guard drops at
\* the end of the arm (unimplemented!() panics instead)
MovedSetParentPosition ==
    /\ ev_pc = "moved_set_parent_position"
    /\ mac' = mac_set_parent_position(mac, PositionPhysical(event.pos))
    /\ win' = win_set_parent_position(win, PositionPhysical(event.pos))
    /\ mutex' = IF win'.unimplemented THEN PanicDrop("event") ELSE Drop("event")
    /\ ev_pc' = IF win'.unimplemented THEN "panicked" ELSE "idle"
    /\ UNCHANGED <<main_pc, rt_pc, host_pos, event, locals, wgpu_state,
                   surface, render_result>>
    /\ UNCHANGED history

----------------------------------------------------------------------------
(* Event thread: WindowEvent::Resized (main.rs 399-421) *)

\* the event arrives and the arm computes overlay_size, x and y (401-413)
Resized ==
    /\ ev_pc = "idle"
    /\ \E w \in HostWidths, h \in HostHeights :
          /\ event' = [kind |-> "Resized", pos |-> PhysicalPosition(0, 0),
                       size |-> PhysicalSize(w, h)]
          /\ locals' = [overlay_size |-> overlay_size(PhysicalSize(w, h)),
                        x |-> origin_x(PhysicalSize(w, h)),
                        y |-> origin_y(PhysicalSize(w, h))]
          /\ history' =
                [resized_again |->
                    event.kind = "Resized" /\ event.size = PhysicalSize(w, h),
                 last_valid |->
                    IF 3 * w >= 10 /\ h >= 10
                    THEN PhysicalSize((3 * w) \div 10, h \div 10)
                    ELSE history.last_valid]
    /\ ev_pc' = "resized_lock_overlay"
    /\ UNCHANGED <<main_pc, rt_pc, host_pos, mutex, mac, win, wgpu_state,
                   surface, render_result>>

\* let mut overlay = video_view.lock().unwrap();
ResizedLockOverlay ==
    /\ ev_pc = "resized_lock_overlay"
    /\ Free(LockAt(ev_pc))
    /\ mutex' = LockUnwrap("event", ev_pc)
    /\ ev_pc' = IF mutex[LockAt(ev_pc)].poisoned THEN "panicked"
                ELSE "resized_set_origin"
    /\ UNCHANGED <<main_pc, rt_pc, host_pos, event, locals, mac, win,
                   wgpu_state, surface, render_result>>
    /\ UNCHANGED history

\* the argument of set_origin: Position::Physical { x as i32, y as i32 }
SetOriginArg_logical ==
    [kind |-> "Logical", x |-> AsInt(locals.x), y |-> AsInt(locals.y)]
SetOriginArg ==
    PositionPhysical(PhysicalPosition(AsInt(locals.x), AsInt(locals.y)))
\* the argument of set_size: Size::Physical(overlay_size)
SetSizeArg == SizePhysical(locals.overlay_size)

ResizedSetOrigin ==
    /\ ev_pc = "resized_set_origin"
    /\ mac' = mac_set_origin(mac, SetOriginArg)
    /\ win' = win_set_origin(win, SetOriginArg)
    /\ mutex' = IF win'.unimplemented THEN PanicDrop("event") ELSE mutex
    /\ ev_pc' = IF win'.unimplemented THEN "panicked" ELSE "resized_set_size"
    /\ UNCHANGED <<main_pc, rt_pc, host_pos, event, locals, wgpu_state,
                   surface, render_result>>
    /\ UNCHANGED history

ResizedSetSize ==
    /\ ev_pc = "resized_set_size"
    /\ mac' = mac_set_size(mac, SetSizeArg)
    /\ win' = win_set_size(win, SetSizeArg)
    /\ ev_pc' = "resized_lock_state"
    /\ UNCHANGED <<main_pc, rt_pc, host_pos, event, locals, mutex,
                   wgpu_state, surface, render_result>>
    /\ UNCHANGED history

\* state1.lock().unwrap(), with the overlay guard still alive
ResizedLockState ==
    /\ ev_pc = "resized_lock_state"
    /\ Free(LockAt(ev_pc))
    /\ mutex' = LockUnwrap("event", ev_pc)
    /\ ev_pc' = IF mutex[LockAt(ev_pc)].poisoned THEN "panicked"
                ELSE "resize"
    /\ UNCHANGED <<main_pc, rt_pc, host_pos, event, locals, mac, win,
                   wgpu_state, surface, render_result>>
    /\ UNCHANGED history

\* State::resize(overlay_size): the guard, then self.size = new_size; with a
\* zero dimension resize returns at once and the State guard drops at the end
\* of the statement (main.rs 420)
ResizeBegin ==
    /\ ev_pc = "resize"
    /\ \/ /\ resize_guard(locals.overlay_size)
          /\ wgpu_state' = [wgpu_state EXCEPT !.size = locals.overlay_size]
          /\ ev_pc' = "resize_config_width"
          /\ UNCHANGED mutex
       \/ /\ ~resize_guard(locals.overlay_size)
          /\ mutex' = DropGuard("event", "wgpu_state")
          /\ ev_pc' = "resized_end"
          /\ UNCHANGED wgpu_state
    /\ UNCHANGED <<main_pc, rt_pc, host_pos, event, locals, mac, win,
                   surface, render_result>>
    /\ UNCHANGED history

\* self.config.width = new_size.width
ResizeConfigWidth ==
    /\ ev_pc = "resize_config_width"
    /\ wgpu_state' = [wgpu_state EXCEPT
                         !.config.width = locals.overlay_size.width]
    /\ ev_pc' = "resize_config_height"
    /\ UNCHANGED <<main_pc, rt_pc, host_pos, event, locals, mutex, mac, win,
                   surface, render_result>>
    /\ UNCHANGED history

\* self.config.height = new_size.height
ResizeConfigHeight_width ==
    /\ ev_pc = "resize_config_height"
    /\ wgpu_state' = [wgpu_state EXCEPT
                         !.config.height = locals.overlay_size.width]
    /\ ev_pc' = "resize_configure"
    /\ UNCHANGED <<main_pc, rt_pc, host_pos, event, locals, mutex, mac, win,
                   surface, render_result, history>>
ResizeConfigHeight ==
    /\ ev_pc = "resize_config_height"
    /\ wgpu_state' = [wgpu_state EXCEPT
                         !.config.height = locals.overlay_size.height]
    /\ ev_pc' = "resize_configure"
    /\ UNCHANGED <<main_pc, rt_pc, host_pos, event, locals, mutex, mac, win,
                   surface, render_result>>
    /\ UNCHANGED history

\* self.surface.configure(&self.device, &self.config); resize returns and
\* the State guard drops at the end of the statement (main.rs 420)
ResizeConfigure ==
    /\ ev_pc = "resize_configure"
    /\ surface' = configure(surface, wgpu_state.config)
    /\ mutex' = DropGuard("event", "wgpu_state")
    /\ ev_pc' = "resized_end"
    /\ UNCHANGED <<main_pc, rt_pc, host_pos, event, locals, mac, win,
                   wgpu_state, render_result>>
    /\ UNCHANGED history

\* the end of the Resized arm (main.rs 421): the overlay guard drops
ResizedEnd ==
    /\ ev_pc = "resized_end"
    /\ mutex' = DropGuard("event", "video_view")
    /\ ev_pc' = "idle"
    /\ UNCHANGED <<main_pc, rt_pc, host_pos, event, locals, mac, win,
                   wgpu_state, surface, render_result>>
    /\ UNCHANGED history

----------------------------------------------------------------------------
(* Render thread (main.rs 426-433) and State::render (318-354) *)

\* state2.lock().unwrap()
RenderLock_nolock ==
    /\ rt_pc = "render_lock"
    /\ rt_pc' = "get_current_texture"
    /\ UNCHANGED <<main_pc, ev_pc, host_pos, event, locals, mutex, mac, win,
                   wgpu_state, surface, render_result>>
    /\ UNCHANGED history
RenderLock ==
    /\ rt_pc = "render_lock"
    /\ Free(LockAt(rt_pc))
    /\ mutex' = LockUnwrap("render", rt_pc)
    /\ rt_pc' = IF mutex[LockAt(rt_pc)].poisoned THEN "panicked"
                ELSE "get_current_texture"
    /\ UNCHANGED <<main_pc, ev_pc, host_pos, event, locals, mac, win,
                   wgpu_state, surface, render_result>>
    /\ UNCHANGED history

\* self.surface.get_current_texture()?  A lost or outdated surface gives Err,
\* render returns it, and .expect("render failed") panics with the guard of
\* the statement still alive
RenderGetCurrentTexture ==
    /\ rt_pc = "get_current_texture"
    /\ \/ /\ surface.status = "ok"
          /\ rt_pc' = "encode"
          /\ UNCHANGED <<mutex, render_result>>
       \/ /\ surface.status = "lost"
          /\ render_result' = "err"
          /\ mutex' = PanicDrop("render")
          /\ rt_pc' = "panicked"
    /\ UNCHANGED <<main_pc, ev_pc, host_pos, event, locals, mac, win,
                   wgpu_state, surface>>
    /\ UNCHANGED history

\* create_view, create_command_encoder, begin_render_pass (clear)
RenderEncode ==
    /\ rt_pc = "encode"
    /\ rt_pc' = "submit"
    /\ UNCHANGED <<main_pc, ev_pc, host_pos, event, locals, mutex, mac, win,
                   wgpu_state, surface, render_result>>
    /\ UNCHANGED history

\* self.queue.submit(..)
RenderSubmit ==
    /\ rt_pc = "submit"
    /\ rt_pc' = "present"
    /\ UNCHANGED <<main_pc, ev_pc, host_pos, event, locals, mutex, mac, win,
                   wgpu_state, surface, render_result>>
    /\ UNCHANGED history

\* output.present(); Ok(()); the guard drops at the end of the statement
RenderPresent ==
    /\ rt_pc = "present"
    /\ render_result' = "ok"
    /\ mutex' = Drop("render")
    /\ rt_pc' = "sleep"
    /\ UNCHANGED <<main_pc, ev_pc, host_pos, event, locals, mac, win,
                   wgpu_state, surface>>
    /\ UNCHANGED history

\* std::thread::sleep(Duration::from_millis(15))
RenderSleep ==
    /\ rt_pc = "sleep"
    /\ rt_pc' = "render_lock"
    /\ UNCHANGED <<main_pc, ev_pc, host_pos, event, locals, mutex, mac, win,
                   wgpu_state, surface, render_result>>
    /\ UNCHANGED history

----------------------------------------------------------------------------
(* Environment *)

\* the surface is lost or outdated (display configuration change)
SurfaceLost ==
    /\ surface.status = "ok"
    /\ surface' = [surface EXCEPT !.status = "lost"]
    /\ UNCHANGED <<main_pc, ev_pc, rt_pc, host_pos, event, locals, mutex, mac,
                   win, wgpu_state, render_result>>
    /\ UNCHANGED history

\* the tao window behind the Weak reference is dropped
DestroyOverlay ==
    /\ main_pc \notin {"aborted", "window_deallocated"}
    /\ win.alive
    /\ win' = [win EXCEPT !.alive = FALSE]
    /\ UNCHANGED <<main_pc, ev_pc, rt_pc, host_pos, event, locals, mutex, mac,
                   wgpu_state, surface, render_result>>
    /\ UNCHANGED history

----------------------------------------------------------------------------
Next ==
    \/ StateNew
    \/ RegisterHandler
    \/ SpawnRenderThread
    \/ Moved
    \/ MovedLock
    \/ MovedSetParentPosition
    \/ Resized
    \/ ResizedLockOverlay
    \/ ResizedSetOrigin
    \/ ResizedSetSize
    \/ ResizedLockState
    \/ ResizeBegin
    \/ ResizeConfigWidth
    \/ ResizeConfigHeight
    \/ ResizeConfigure
    \/ ResizedEnd
    \/ RenderLock
    \/ RenderGetCurrentTexture
    \/ RenderEncode
    \/ RenderSubmit
    \/ RenderPresent
    \/ RenderSleep
    \/ SurfaceLost
    \/ DestroyOverlay

Spec == Init /\ [][Next]_vars

----------------------------------------------------------------------------
(* Vocabulary of the properties *)

pc(t) == IF t = "event" THEN ev_pc ELSE rt_pc
Holds(t, m) == mutex[m].holder = t
LockPcs == {"moved_lock", "resized_lock_overlay", "resized_lock_state",
            "render_lock"}
\* t is at a lock() whose Mutex another guard holds
Blocked(t) == pc(t) \in LockPcs /\ ~Free(LockAt(pc(t)))
Dead(t) == pc(t) = "panicked"

\* the render thread is inside State::render
InRender == rt_pc \in {"get_current_texture", "encode", "submit", "present"}
\* the event thread is inside State::resize
InResize == ev_pc \in {"resize", "resize_config_width", "resize_config_height",
                       "resize_configure"}
\* size, config and the configured surface agree
ConfigConsistent ==
    /\ wgpu_state.size = wgpu_state.config
    /\ surface.width = wgpu_state.config.width
    /\ surface.height = wgpu_state.config.height

ZeroDim(s) == s.width = 0 \/ s.height = 0
\* r is num/den with the fraction dropped
IsTruncOf(r, num, den) == r * den <= num /\ num < (r + 1) * den
\* the Resized arm is past overlay.set_size
PastSetSize == ev_pc \in {"resized_lock_state", "resize", "resize_config_width",
                          "resize_config_height", "resize_configure",
                          "resized_end", "idle"}

----------------------------------------------------------------------------
(* C1: a failed render() never terminates the Render Loop: after a failure *)
(* the render thread is still alive (sleeping or retrying).                *)
C1_RenderLoopSurvivesFailure ==
    render_result = "err" => rt_pc \in {"sleep", "render_lock",
                                        "get_current_texture", "encode",
                                        "submit", "present"}

(* C2: a render failure is not propagated outside the Render Loop: after   *)
(* render() has failed, a Resized event whose overlay size has both        *)
(* dimensions positive is still handled by the event thread, which never   *)
(* fails on the GPU Surface lock.                                          *)
C2_FailureNotPropagated ==
    (/\ render_result = "err"
     /\ event.kind = "Resized"
     /\ locals.overlay_size.width > 0
     /\ locals.overlay_size.height > 0) => ev_pc /= "panicked"

(* C3 as claimed: no thread holds the Overlay Handle mutex while it holds  *)
(* or acquires the GPU Surface mutex.                                      *)
C3_LocksNeverHeldTogether ==
    \A t \in Threads :
        ~(/\ Holds(t, "video_view")
          /\ \/ Holds(t, "wgpu_state")
             \/ (pc(t) \in LockPcs /\ LockAt(pc(t)) = "wgpu_state"))

(* C3 amended: the two locks are nested in one order only.  The event      *)
(* thread holds the GPU Surface mutex only while it also holds the Overlay *)
(* Handle mutex (taken first), and the render thread never holds the       *)
(* Overlay Handle mutex.                                                   *)
C3_LocksNestedInOneOrder ==
    /\ Holds("event", "wgpu_state") => Holds("event", "video_view")
    /\ ~Holds("render", "video_view")
    /\ \A t \in Threads :
          Holds(t, "wgpu_state") =>
              ~(pc(t) \in LockPcs /\ LockAt(pc(t)) = "video_view")

C3_Witness ==
    /\ ev_pc = "resize_configure"
    /\ Holds("event", "video_view")
    /\ Holds("event", "wgpu_state")

(* C4: no deadlock between the event thread and the render thread: a       *)
(* thread that waits for a Mutex waits for a guard held by another thread  *)
(* that is alive and is not itself waiting for a Mutex.                    *)
C4_NoDeadlock ==
    \A t \in Threads :
        Blocked(t) =>
            LET h == mutex[LockAt(pc(t))].holder
            IN  /\ h \in Threads \ {t}
                /\ ~Dead(h)
                /\ ~Blocked(h)

C4_Witness ==
    /\ Blocked("event")
    /\ Holds("event", "video_view")
    /\ Holds("render", "wgpu_state")

(* C5: resize and render exclude each other: the render thread is never    *)
(* inside render() while the event thread is inside resize(), and render() *)
(* only ever runs with size, config and the configured surface in          *)
(* agreement (the state before a resize or the state after it).            *)
C5_ResizeRenderExclusive ==
    /\ ~(InRender /\ InResize)
    /\ InRender => ConfigConsistent

C5_Witness ==
    /\ InResize
    /\ ~ConfigConsistent
    /\ rt_pc = "render_lock"

(* C6: after the same events the embedded-subview overlay and the          *)
(* owned-top-level overlay have the same host-local origin and the same    *)
(* width and height.                                                       *)
C6_VariantsAgree ==
    (ev_pc = "idle" /\ event.kind = "Resized" /\ win.alive) =>
        /\ mac.origin = PhysicalPosition(win.last_origin.x, win.last_origin.y)
        /\ mac.size = win.inner_size

(* C7: in the embedded-subview variant the frame origin after set_origin   *)
(* is the requested (x, y) and the frame size after set_size is the        *)
(* requested (width, height).                                              *)
C7_MacFrameIsRequested ==
    /\ ev_pc = "resized_set_size" =>
          mac.origin = PhysicalPosition(SetOriginArg.x, SetOriginArg.y)
    /\ ev_pc = "resized_lock_state" =>
          mac.size = PhysicalSize(SetSizeArg.width, SetSizeArg.height)

(* C8: for a Resized event with host size (w, h), w > 0 and h > 0, the     *)
(* size passed to set_size is (0.3 w, 0.1 h) and the origin passed to      *)
(* set_origin is ((w - 0.3 w) / 2, 100), fractions dropped; host           *)
(* (1000, 800) gives size (300, 80) and origin (350, 100).                 *)
C8_GeometryPolicy ==
    (event.kind = "Resized" /\ PastSetSize
        /\ event.size.width > 0 /\ event.size.height > 0) =>
        LET w == event.size.width
            h == event.size.height
        IN  /\ SetSizeArg.kind = "Physical"
            /\ SetOriginArg.kind = "Physical"
            /\ IsTruncOf(SetSizeArg.width, 3 * w, 10)
            /\ IsTruncOf(SetSizeArg.height, h, 10)
            /\ IsTruncOf(SetOriginArg.x, 10 * w - 3 * w, 20)
            /\ SetOriginArg.y = 100
            /\ (w = 1000 /\ h = 800) =>
                  /\ SetSizeArg.width = 300 /\ SetSizeArg.height = 80
                  /\ SetOriginArg.x = 350 /\ SetOriginArg.y = 100
            /\ mac.origin = PhysicalPosition(SetOriginArg.x, SetOriginArg.y)
            /\ win.alive =>
                  /\ win.last_origin = SetOriginArg
                  /\ win.inner_size =
                        PhysicalSize(SetSizeArg.width, SetSizeArg.height)

C8_Witness ==
    /\ ev_pc = "idle"
    /\ event.kind = "Resized"
    /\ event.size = PhysicalSize(1000, 800)
    /\ win.alive
    /\ win.last_origin.x = 350 /\ win.last_origin.y = 100
    /\ win.inner_size = PhysicalSize(300, 80)

(* C9: State::resize with a zero width or height is a no-op: the call      *)
(* returns with size, config and the configured surface unchanged, and the *)
(* surface is not reconfigured.                                            *)
C9_ZeroResizeNoOp ==
    [][(ev_pc = "resize" /\ ZeroDim(locals.overlay_size)) =>
          /\ ev_pc' \in {"resize", "resized_end"}
          /\ wgpu_state' = wgpu_state
          /\ surface'.width = surface.width
          /\ surface'.height = surface.height
          /\ ev_pc' = "resized_end" => surface' = surface]_vars

\* resize(300, 80) was applied, then resize(0, 600) returned
C9_Witness ==
    /\ ev_pc = "idle"
    /\ event.kind = "Resized"
    /\ locals.overlay_size = PhysicalSize(0, 600)
    /\ wgpu_state.config = PhysicalSize(300, 80)
    /\ wgpu_state.size = PhysicalSize(300, 80)
    /\ surface.width = 300 /\ surface.height = 80

(* C10: once the GPU Surface is created its configured width and height    *)
(* are strictly positive, whatever Resized events arrive, and render()     *)
(* only runs against such a configuration.                                 *)
C10_ConfigPositive ==
    /\ wgpu_state.created =>
          /\ wgpu_state.config.width > 0 /\ wgpu_state.config.height > 0
          /\ wgpu_state.size.width > 0 /\ wgpu_state.size.height > 0
          /\ surface.width > 0 /\ surface.height > 0
    /\ InRender => wgpu_state.created

\* render() runs after a Resized event with a zero overlay dimension
C10_Witness ==
    /\ InRender
    /\ ev_pc = "idle"
    /\ event.kind = "Resized"
    /\ ZeroDim(locals.overlay_size)

(* C11 as claimed: after a Resized event is handled the configured         *)
(* (width, height) of the GPU Surface equals the overlay size the handler  *)
(* passed to set_size.                                                     *)
C11_ConfigEqualsAppliedSize ==
    (ev_pc = "idle" /\ event.kind = "Resized") =>
        wgpu_state.config = PhysicalSize(SetSizeArg.width, SetSizeArg.height)

(* C11 amended: after a Resized event whose overlay size has both          *)
(* dimensions positive is handled, size, config and the configured surface *)
(* equal the size passed to set_size (and the inner size of a live overlay *)
(* window); after one with a zero dimension the overlay was given the      *)
(* zero-dimension size while the GPU Surface keeps a positive one.         *)
C11_ConfigEqualsPositiveAppliedSize ==
    (ev_pc = "idle" /\ event.kind = "Resized") =>
        LET applied == PhysicalSize(SetSizeArg.width, SetSizeArg.height)
        IN  IF applied.width > 0 /\ applied.height > 0
            THEN /\ wgpu_state.config = applied
                 /\ wgpu_state.size = applied
                 /\ surface.width = applied.width
                 /\ surface.height = applied.height
                 /\ win.alive => win.inner_size = wgpu_state.config
            ELSE /\ wgpu_state.config /= applied
                 /\ wgpu_state.config.width > 0
                 /\ wgpu_state.config.height > 0
                 /\ win.alive => win.inner_size = applied

C11_Witness ==
    /\ ev_pc = "idle"
    /\ event.kind = "Resized"
    /\ event.size = PhysicalSize(1000, 800)
    /\ wgpu_state.config = PhysicalSize(300, 80)
    /\ win.alive
    /\ win.inner_size = PhysicalSize(300, 80)

\* the screen position of the overlay window is local origin + parent position
ScreenIsLocalPlusParent ==
    win.outer_position =
        PhysicalPosition(win.last_origin.x + win.parent_pos.x,
                         win.last_origin.y + win.parent_pos.y)

(* C12: owned-top-level variant, live overlay window: after                *)
(* set_parent_position and after set_origin the screen position applied to *)
(* the window is the retained local origin plus the retained parent        *)
(* position, each the argument of the latest call; with local origin       *)
(* (350, 100) the parent positions (100, 100) and (150, 120) give          *)
(* (450, 200) and (500, 220).                                              *)
C12_ScreenOriginAfterCall ==
    /\ (ev_pc = "idle" /\ event.kind = "Moved" /\ win.alive) =>
          /\ win.parent_pos = PositionPhysical(event.pos)
          /\ ScreenIsLocalPlusParent
          /\ (win.last_origin.x = 350 /\ win.last_origin.y = 100) =>
                /\ event.pos = PhysicalPosition(100, 100) =>
                      win.outer_position = PhysicalPosition(450, 200)
                /\ event.pos = PhysicalPosition(150, 120) =>
                      win.outer_position = PhysicalPosition(500, 220)
    /\ (ev_pc = "resized_set_size" /\ win.alive) =>
          /\ win.last_origin = SetOriginArg
          /\ ScreenIsLocalPlusParent

C12_Witness ==
    /\ ev_pc = "idle"
    /\ event.kind = "Moved"
    /\ win.alive
    /\ win.last_origin.x = 350 /\ win.last_origin.y = 100
    /\ win.parent_pos.x = 150 /\ win.parent_pos.y = 120
    /\ win.outer_position = PhysicalPosition(500, 220)

(* C13: owned-top-level variant: in every state from the creation of the   *)
(* overlay on, the applied screen origin is the retained local origin plus *)
(* the retained parent position.                                           *)
C13_ScreenOriginAlways == ScreenIsLocalPlusParent

(* C14: once the overlay window is destroyed every operation of the        *)
(* owned-top-level handle, yielding the window handle included, returns    *)
(* normally instead of failing.                                            *)
C14_DeadOverlayNeverFails ==
    ~win.alive => (main_pc /= "window_deallocated" /\ ~win.unimplemented)

(* C15: GPU Surface creation is a startup barrier: the event handler is    *)
(* registered and the render thread started only after State::new has      *)
(* configured the surface with 200 x 200, so resize() and render() never   *)
(* run before the surface is configured.                                   *)
C15_StartupBarrier ==
    /\ main_pc = "state_new" =>
          (~wgpu_state.created /\ ev_pc = "unregistered" /\ rt_pc = "unspawned")
    /\ main_pc = "on_window_event" =>
          /\ wgpu_state = StateNewValue(PhysicalSize(200, 200))
          /\ surface.width = 200 /\ surface.height = 200
          /\ surface.status /= "none"
          /\ ev_pc = "unregistered" /\ rt_pc = "unspawned"
    /\ main_pc = "spawn" => rt_pc = "unspawned"
    /\ (ev_pc /= "unregistered" \/ rt_pc /= "unspawned"
            \/ InResize \/ InRender) =>
          (wgpu_state.created /\ surface.status /= "none")

\* State::new has returned, nothing else has started yet
C15_Witness ==
    /\ main_pc = "on_window_event"
    /\ wgpu_state.created
    /\ surface.status = "ok"
    /\ ev_pc = "unregistered"
    /\ rt_pc = "unspawned"

(* C16: handling the same Resized event twice in a row is idempotent: no   *)
(* step of the second handling changes the overlay handles, the origin and *)
(* size applied to the overlays, or the size and config of the GPU Surface *)
(* and the size the surface is configured with.                            *)
C16_ResizedTwiceIdempotent ==
    [][(/\ history.resized_again
        /\ event.kind = "Resized"
        /\ ev_pc \notin {"idle", "panicked"}
        /\ ev_pc' /= ev_pc) =>
          /\ mac' = mac
          /\ win' = win
          /\ wgpu_state' = wgpu_state
          /\ surface'.width = surface.width
          /\ surface'.height = surface.height]_vars

\* Resized(1000, 800) has been handled twice in a row
C16_Witness ==
    /\ history.resized_again
    /\ ev_pc = "idle"
    /\ event.kind = "Resized"
    /\ event.size = PhysicalSize(1000, 800)
    /\ win.alive
    /\ win.inner_size = PhysicalSize(300, 80)
    /\ wgpu_state.config = PhysicalSize(300, 80)

(* C17: the logical-coordinate branch of the owned-top-level set_origin is *)
(* never executed: for every sequence of Moved and Resized events the      *)
(* retained parent position and local origin are physical positions.       *)
C17_LogicalBranchUnreachable ==
    /\ ~win.unimplemented
    /\ win.parent_pos.kind = "Physical"
    /\ win.last_origin.kind = "Physical"
    /\ (ev_pc \in {"resized_set_origin", "resized_set_size"}) =>
          SetOriginArg.kind = "Physical"

\* both a Moved and a Resized event have reached the live overlay
C17_Witness ==
    /\ ev_pc = "idle"
    /\ win.alive
    /\ win.parent_pos.x = 150
    /\ win.last_origin.x = 350
    /\ win.outer_position.x = 500

(* C18: when no adapter or device is obtained GPU Surface creation fails   *)
(* fatally at startup: no State exists, the surface is never configured,   *)
(* the event handler is never registered and the render thread never       *)
(* started; nothing runs without a State.                                  *)
C18_NoDegradedMode ==
    /\ main_pc = "aborted" =>
          /\ wgpu_state = NoState
          /\ surface = NoSurface
          /\ ev_pc = "unregistered"
          /\ rt_pc = "unspawned"
          /\ event = NoEvent
          /\ render_result = "none"
    /\ ~wgpu_state.created =>
          /\ main_pc \in {"state_new", "aborted", "window_deallocated"}
          /\ ev_pc = "unregistered"
          /\ rt_pc = "unspawned"

C18_Witness ==
    /\ main_pc = "aborted"
    /\ ~wgpu_state.created
    /\ win.alive

(* C19: last write wins: between events the configured size of the GPU     *)
(* Surface is the Geometry Policy size of the latest Resized event whose   *)
(* overlay size had both dimensions positive, or 200 x 200 when there was  *)
(* none; later events with a zero dimension do not alter it.               *)
C19_LastValidResizeWins ==
    (wgpu_state.created /\ ev_pc \in {"unregistered", "registered", "idle"}) =>
        /\ wgpu_state.config = history.last_valid
        /\ wgpu_state.size = history.last_valid
        /\ surface.width = history.last_valid.width
        /\ surface.height = history.last_valid.height

\* Resized(1000, 800), then a Resized event with a zero overlay dimension
C19_Witness ==
    /\ ev_pc = "idle"
    /\ event.kind = "Resized"
    /\ ZeroDim(locals.overlay_size)
    /\ history.last_valid = PhysicalSize(300, 80)
    /\ wgpu_state.config = PhysicalSize(300, 80)

\* the event thread is inside the Moved arm
InMoved == ev_pc \in {"moved_lock", "moved_set_parent_position"}

(* C20: handling a Moved event changes only the parent position (and, for  *)
(* the owned-top-level overlay, the applied screen origin): the local      *)
(* origin, the overlay sizes and the GPU Surface are unchanged, the GPU    *)
(* Surface lock is never taken, and the embedded-subview handle does not   *)
(* change at all.                                                          *)
C20_MovedFrame ==
    [][((InMoved \/ InMoved') /\ ev_pc' /= ev_pc) =>
          /\ mac' = mac
          /\ win'.last_origin = win.last_origin
          /\ win'.inner_size = win.inner_size
          /\ win'.alive = win.alive
          /\ wgpu_state' = wgpu_state
          /\ surface' = surface
          /\ locals' = locals
          /\ ~Holds("event", "wgpu_state")
          /\ mutex'["wgpu_state"] = mutex["wgpu_state"]]_vars

\* a Moved event has moved the live overlay and nothing else
C20_Witness ==
    /\ ev_pc = "idle"
    /\ event.kind = "Moved"
    /\ win.alive
    /\ win.parent_pos.x = 150 /\ win.parent_pos.y = 120
    /\ win.outer_position = PhysicalPosition(500, 220)
    /\ mac.origin = PhysicalPosition(350, 100)
    /\ wgpu_state.config = PhysicalSize(300, 80)

(* C21: owned-top-level variant: after a Resized event is handled the      *)
(* applied screen origin of the live overlay window is the host window's   *)
(* real screen position plus the host-local origin of the Geometry Policy, *)
(* also when no Moved event was delivered since the overlay was created.   *)
C21_ScreenOriginTracksHost ==
    (ev_pc = "idle" /\ event.kind = "Resized" /\ win.alive) =>
        win.outer_position =
            PhysicalPosition(host_pos.x + SetOriginArg.x,
                             host_pos.y + SetOriginArg.y)

----------------------------------------------------------------------------
(* Fair scheduling: a thread that can take its next step takes it, and a   *)
(* lock() that finds its Mutex free again and again gets it.  The host     *)
(* events and the environment are under no obligation.                     *)

FairSpec ==
    /\ Spec
    /\ WF_vars(StateNew) /\ WF_vars(RegisterHandler) /\ WF_vars(SpawnRenderThread)
    /\ SF_vars(MovedLock) /\ WF_vars(MovedSetParentPosition)
    /\ SF_vars(ResizedLockOverlay) /\ WF_vars(ResizedSetOrigin)
    /\ WF_vars(ResizedSetSize) /\ SF_vars(ResizedLockState)
    /\ WF_vars(ResizeBegin) /\ WF_vars(ResizeConfigWidth)
    /\ WF_vars(ResizeConfigHeight) /\ WF_vars(ResizeConfigure)
    /\ WF_vars(ResizedEnd)
    /\ SF_vars(RenderLock) /\ WF_vars(RenderGetCurrentTexture)
    /\ WF_vars(RenderEncode) /\ WF_vars(RenderSubmit)
    /\ WF_vars(RenderPresent) /\ WF_vars(RenderSleep)

(* C22: the Render Loop makes progress forever: under fair scheduling,     *)
(* once the render thread is started it is inside render(), holding the    *)
(* GPU Surface lock, again and again.                                      *)
C22_RenderForever ==
    (rt_pc /= "unspawned") ~> (InRender /\ Holds("render", "wgpu_state"))

====
